---- MODULE Spec2Model ----
(***************************************************************************)
(* The link-validation and playlist-repair pipeline of                     *)
(* src/Buddys-VideoAll.py (validate_links, check, build_map,               *)
(* rewrite_streams, main).                                                 *)
(*                                                                         *)
(* Text is modelled at token level: a line is a sequence of tokens, a file *)
(* is a sequence of tokens in which the token "\n" ends a line.  The       *)
(* conversions of the code (read().splitlines(), str.strip, str.startswith,*)
(* PREMIUM_RE.search, str.format, "\n".join) are operators on such         *)
(* sequences.                                                              *)
(***************************************************************************)
EXTENDS Integers, Sequences, FiniteSets, TLC

(***************************************************************************)
(* Bounds of the model.                                                    *)
(***************************************************************************)
\* longest playlist (in lines) given to rewrite_streams alone
MaxLines == 3
\* longest list of confirmed-live URLs given to build_map alone
MaxValid == 2
\* longest playlist (in lines) given to the whole pipeline
MaxPipeLines == 3
MaxScanLines == 6
MaxRunLines == 2
MaxMapLinks == 3
MaxPairLines == 5
\* the small worker count tried beside the default one
SmallPool == 2

(***************************************************************************)
(* Program constants.                                                      *)
(***************************************************************************)
\* validate_links(..., workers=10)
DefaultWorkers == 10
\* for attempt in range(1, 4)
MaxAttempts == 3
\* time.sleep(5)
BackoffSeconds == 5
HTTP_OK == 200
HTTP_NOT_FOUND == 404
HTTP_TOO_MANY == 429
\* an "odd" status: neither 200, 404 nor 429
HTTP_ODD == 500
\* no status at all: requests.RequestException was raised
RequestError == 0
\* raise SystemExit(1); an uncaught exception ends the interpreter with 1 too
ExitFailure == 1
ExitSuccess == 0

NL == "\n"
WS == " "
EXTINF == "#EXTINF"
NumSlot == "{num}"
PremiumWord == "premium"
MonoTail == "/mono.m3u8"
\* the tokens \d+ matches
Digits == {"7", "8"}

\* None, and every other falsy result of check
None == <<>>
\* the content of a file that does not exist
Absent == <<"<no such file>">>

URL_TEMPLATES ==
    << <<"https://nfsnew.newkso.ru/nfs/", PremiumWord, NumSlot, MonoTail>>,
       <<"https://windnew.newkso.ru/wind/", PremiumWord, NumSlot, MonoTail>>,
       <<"https://zekonew.newkso.ru/zeko/", PremiumWord, NumSlot, MonoTail>>,
       <<"https://dokko1new.newkso.ru/dokko1/", PremiumWord, NumSlot, MonoTail>>,
       <<"https://ddy6new.newkso.ru/ddy6/", PremiumWord, NumSlot, MonoTail>> >>

(***************************************************************************)
(* String operations.                                                      *)
(***************************************************************************)
\* tpl.format(num=i)
Format(tpl, num) ==
    [k \in DOMAIN tpl |-> IF tpl[k] = NumSlot THEN num ELSE tpl[k]]

\* line.startswith("#EXTINF")
StartsWithExtinf(line) == Len(line) > 0 /\ line[1] = EXTINF

RECURSIVE LStrip(_)
LStrip(s) ==
    IF s # <<>> /\ Head(s) = WS THEN LStrip(Tail(s)) ELSE s

RECURSIVE RStrip(_)
RStrip(s) ==
    IF s # <<>> /\ s[Len(s)] = WS THEN RStrip(SubSeq(s, 1, Len(s) - 1)) ELSE s

\* str.strip()
Strip(s) == RStrip(LStrip(s))

\* PREMIUM_RE matches at token k of s
PremiumMatchAt(s, k) ==
    /\ k + 2 <= Len(s)
    /\ s[k] = PremiumWord
    /\ s[k + 1] \in Digits
    /\ s[k + 2] = MonoTail

\* PREMIUM_RE.search(s): the place of the leftmost match, 0 for no match
PremiumSearch(s) ==
    IF \E k \in 1..Len(s) : PremiumMatchAt(s, k)
    THEN CHOOSE k \in 1..Len(s) :
            /\ PremiumMatchAt(s, k)
            /\ \A j \in 1..(k - 1) : ~PremiumMatchAt(s, j)
    ELSE 0

\* m.group(1) of PREMIUM_RE.search(s), for a string that matches
PremiumGroup1(s) == s[PremiumSearch(s) + 1]

\* the place of the first "\n" of s, 0 when it has none
FirstNL(s) ==
    IF \E k \in 1..Len(s) : s[k] = NL
    THEN CHOOSE k \in 1..Len(s) : s[k] = NL /\ \A j \in 1..(k - 1) : s[j] # NL
    ELSE 0

\* text.splitlines()
RECURSIVE SplitLines(_)
SplitLines(s) ==
    IF s = <<>> THEN <<>>
    ELSE IF FirstNL(s) = 0 THEN <<s>>
    ELSE <<SubSeq(s, 1, FirstNL(s) - 1)>>
            \o SplitLines(SubSeq(s, FirstNL(s) + 1, Len(s)))

\* "\n".join(ls)
RECURSIVE JoinNL(_)
JoinNL(ls) ==
    IF ls = <<>> THEN <<>>
    ELSE IF Len(ls) = 1 THEN ls[1]
    ELSE ls[1] \o <<NL>> \o JoinNL(Tail(ls))

\* x in xs, for a list xs
InList(x, xs) == \E k \in 1..Len(xs) : xs[k] = x

(***************************************************************************)
(* validate_links: the scan of the playlist and the candidates.            *)
(***************************************************************************)
\* ScanStreams taking every line for a stream line
RECURSIVE ScanStreamsUnpaired(_, _)
ScanStreamsUnpaired(ls, i) ==
    IF i > Len(ls) THEN <<>>
    ELSE (IF PremiumSearch(Strip(ls[i])) # 0 THEN <<Strip(ls[i])>> ELSE <<>>)
         \o ScanStreamsUnpaired(ls, i + 1)

\* the while loop of validate_links from index i on: current_urls
RECURSIVE ScanStreams(_, _)
ScanStreams(ls, i) ==
    IF i > Len(ls) THEN <<>>
    ELSE IF StartsWithExtinf(ls[i]) /\ i + 1 <= Len(ls)
         THEN (IF PremiumSearch(Strip(ls[i + 1])) # 0
               THEN <<Strip(ls[i + 1])>> ELSE <<>>)
              \o ScanStreams(ls, i + 2)
         ELSE ScanStreams(ls, i + 1)

\* ids = {m.group(1) for u in current_urls if (m := PREMIUM_RE.search(u))}
ExtractIds(current_urls) ==
    {PremiumGroup1(current_urls[k]) :
        k \in {j \in 1..Len(current_urls) : PremiumSearch(current_urls[j]) # 0}}

\* the orders in which a set can be iterated
IterationOrders(S) ==
    {o \in [1..Cardinality(S) -> S] :
        \A a, b \in 1..Cardinality(S) : a # b => o[a] # o[b]}

\* Candidates substituting the first identifier into every candidate
CandidatesFirstId(order) ==
    [k \in 1..(Len(order) * Len(URL_TEMPLATES)) |->
        Format(URL_TEMPLATES[((k - 1) % Len(URL_TEMPLATES)) + 1], order[1])]

\* [tpl.format(num=i) for i in ids for tpl in URL_TEMPLATES], ids iterated as order
Candidates(order) ==
    [k \in 1..(Len(order) * Len(URL_TEMPLATES)) |->
        Format(URL_TEMPLATES[((k - 1) % Len(URL_TEMPLATES)) + 1],
               order[((k - 1) \div Len(URL_TEMPLATES)) + 1])]

(***************************************************************************)
(* check: one probe.  A probe state is [pc, attempt, live]; a response is  *)
(* a status code, or RequestError for a raised requests.RequestException.  *)
(***************************************************************************)
Responses == {HTTP_OK, HTTP_NOT_FOUND, HTTP_TOO_MANY, HTTP_ODD, RequestError}

CheckStart == [pc |-> "head", attempt |-> 1, live |-> FALSE]

\* no probe is looked at alone
CheckIdle == [pc |-> "idle", attempt |-> 0, live |-> FALSE]

CheckReturn(st, isLive) == [st EXCEPT !.pc = "returned", !.live = isLive]

\* NextAttempt with one round more: range(1, 5)
NextAttemptOneMore(st) ==
    IF st.attempt <= MaxAttempts
    THEN [st EXCEPT !.pc = "head", !.attempt = st.attempt + 1]
    ELSE CheckReturn(st, FALSE)

\* the end of one round of the for loop: the next attempt, or the final return None
NextAttempt(st) ==
    IF st.attempt < MaxAttempts
    THEN [st EXCEPT !.pc = "head", !.attempt = st.attempt + 1]
    ELSE CheckReturn(st, FALSE)

\* HeadNext not sleeping after a 429 when no attempt is left
HeadNextNoLastSleep(st, r) ==
    IF r = RequestError THEN CheckReturn(st, FALSE)
    ELSE IF r = HTTP_OK THEN CheckReturn(st, TRUE)
    ELSE IF r = HTTP_TOO_MANY
         THEN IF st.attempt < MaxAttempts THEN [st EXCEPT !.pc = "sleep"]
              ELSE CheckReturn(st, FALSE)
    ELSE IF r = HTTP_NOT_FOUND THEN CheckReturn(st, FALSE)
    ELSE [st EXCEPT !.pc = "get"]

\* HeadNext falling back to GET after a 404 as after any odd status
HeadNextNotFoundFallsBack(st, r) ==
    IF r = RequestError THEN CheckReturn(st, FALSE)
    ELSE IF r = HTTP_OK THEN CheckReturn(st, TRUE)
    ELSE IF r = HTTP_TOO_MANY THEN [st EXCEPT !.pc = "sleep"]
    ELSE [st EXCEPT !.pc = "get"]

\* HeadNext with the sleep after a 429 left out
HeadNextNoSleep(st, r) ==
    IF r = RequestError THEN CheckReturn(st, FALSE)
    ELSE IF r = HTTP_OK THEN CheckReturn(st, TRUE)
    ELSE IF r = HTTP_TOO_MANY THEN NextAttempt(st)
    ELSE IF r = HTTP_NOT_FOUND THEN CheckReturn(st, FALSE)
    ELSE [st EXCEPT !.pc = "get"]

\* requests.head(...) answered by r, and the tests of its status
HeadNext(st, r) ==
    IF r = RequestError THEN CheckReturn(st, FALSE)
    ELSE IF r = HTTP_OK THEN CheckReturn(st, TRUE)
    ELSE IF r = HTTP_TOO_MANY THEN [st EXCEPT !.pc = "sleep"]
    ELSE IF r = HTTP_NOT_FOUND THEN CheckReturn(st, FALSE)
    ELSE [st EXCEPT !.pc = "get"]

\* time.sleep(5); continue
SleepNext(st) == NextAttempt(st)

\* GetNext with a request error using up the attempt instead of ending the probe
GetNextErrorRetries(st, r) ==
    IF r = RequestError THEN NextAttempt(st)
    ELSE IF r = HTTP_OK THEN CheckReturn(st, TRUE)
    ELSE IF r = HTTP_NOT_FOUND THEN CheckReturn(st, FALSE)
    ELSE NextAttempt(st)

\* GetNext backing off after a 429 as HeadNext does
GetNextSleeps(st, r) ==
    IF r = RequestError THEN CheckReturn(st, FALSE)
    ELSE IF r = HTTP_OK THEN CheckReturn(st, TRUE)
    ELSE IF r = HTTP_NOT_FOUND THEN CheckReturn(st, FALSE)
    ELSE IF r = HTTP_TOO_MANY THEN [st EXCEPT !.pc = "sleep"]
    ELSE NextAttempt(st)

\* GetNext taking every status but 404 for success
GetNextAnyLive(st, r) ==
    IF r = RequestError THEN CheckReturn(st, FALSE)
    ELSE IF r = HTTP_NOT_FOUND THEN CheckReturn(st, FALSE)
    ELSE CheckReturn(st, TRUE)

\* requests.get(...) answered by r, and the tests of its status
GetNext(st, r) ==
    IF r = RequestError THEN CheckReturn(st, FALSE)
    ELSE IF r = HTTP_OK THEN CheckReturn(st, TRUE)
    ELSE IF r = HTTP_NOT_FOUND THEN CheckReturn(st, FALSE)
    ELSE NextAttempt(st)

\* every verdict a probe in state st can return, over all answers of the network
RECURSIVE CheckOutcomes(_)
CheckOutcomes(st) ==
    IF st.pc = "returned" THEN {st.live}
    ELSE IF st.pc = "head"
         THEN UNION {CheckOutcomes(HeadNext(st, r)) : r \in Responses}
    ELSE IF st.pc = "sleep" THEN CheckOutcomes(SleepNext(st))
    ELSE UNION {CheckOutcomes(GetNext(st, r)) : r \in Responses}

\* the verdicts of a whole run of check
ProbeVerdicts == CheckOutcomes(CheckStart)

\* every <<verdict, whether the last response had status 200>> a probe in
\* state st can return; lastOk says it of the responses received so far
RECURSIVE CheckRuns(_, _)
CheckRuns(st, lastOk) ==
    IF st.pc = "returned" THEN {<<st.live, lastOk>>}
    ELSE IF st.pc = "head"
         THEN UNION {CheckRuns(HeadNext(st, r),
                               IF r = RequestError THEN lastOk ELSE r = HTTP_OK) :
                        r \in Responses}
    ELSE IF st.pc = "sleep" THEN CheckRuns(SleepNext(st), lastOk)
    ELSE UNION {CheckRuns(GetNext(st, r),
                          IF r = RequestError THEN lastOk ELSE r = HTTP_OK) :
                    r \in Responses}

\* the runs of a whole call of check
ProbeRuns == CheckRuns(CheckStart, FALSE)

\* what check(url) returns: url, or None
CheckResult(url, isLive) == IF isLive THEN url ELSE None

(***************************************************************************)
(* build_map.                                                              *)
(***************************************************************************)
\* LinksOf putting each link before the ones already found
RECURSIVE LinksOfReversed(_, _)
LinksOfReversed(valid_links, id) ==
    IF valid_links = <<>> THEN <<>>
    ELSE LinksOfReversed(Tail(valid_links), id)
         \o (IF PremiumSearch(Head(valid_links)) # 0
                 /\ PremiumGroup1(Head(valid_links)) = id
              THEN <<Head(valid_links)>> ELSE <<>>)

\* the links of valid_links, in order, whose identifier is id
RECURSIVE LinksOf(_, _)
LinksOf(valid_links, id) ==
    IF valid_links = <<>> THEN <<>>
    ELSE (IF PremiumSearch(Head(valid_links)) # 0
             /\ PremiumGroup1(Head(valid_links)) = id
          THEN <<Head(valid_links)>> ELSE <<>>)
         \o LinksOf(Tail(valid_links), id)

\* build_map(valid_links): a key for every identifier met, and its links
build_map(valid_links) ==
    [id \in ExtractIds(valid_links) |-> LinksOf(valid_links, id)]

(***************************************************************************)
(* rewrite_streams: the loop over the lines.                               *)
(***************************************************************************)
\* NewStream counting every stream line whose identifier is in the map
NewStreamCountsKept(raw, map) ==
    LET stream == Strip(raw)
        found  == PremiumSearch(stream) # 0
        id_    == PremiumGroup1(stream)
    IN  IF found /\ id_ \in DOMAIN map
        THEN IF ~InList(stream, map[id_]) /\ map[id_] # <<>>
             THEN [line |-> map[id_][1], counted |-> 1]
             ELSE [line |-> stream, counted |-> 1]
        ELSE [line |-> stream, counted |-> 0]

\* NewStream without the test "stream not in valids"
NewStreamAlwaysFirst(raw, map) ==
    LET stream == Strip(raw)
        found  == PremiumSearch(stream) # 0
        id_    == PremiumGroup1(stream)
    IN  IF found /\ id_ \in DOMAIN map /\ map[id_] # <<>>
        THEN [line |-> map[id_][1], counted |-> 1]
        ELSE [line |-> stream, counted |-> 0]

\* NewStream picking valids[-1] instead of valids[0]
NewStreamLast(raw, map) ==
    LET stream == Strip(raw)
        found  == PremiumSearch(stream) # 0
        id_    == PremiumGroup1(stream)
    IN  IF found /\ id_ \in DOMAIN map
             /\ ~InList(stream, map[id_]) /\ map[id_] # <<>>
        THEN [line |-> map[id_][Len(map[id_])], counted |-> 1]
        ELSE [line |-> stream, counted |-> 0]

\* NewStream testing "stream != valids[0]" instead of "stream not in valids"
NewStreamThrash(raw, map) ==
    LET stream == Strip(raw)
        found  == PremiumSearch(stream) # 0
        id_    == PremiumGroup1(stream)
    IN  IF found /\ id_ \in DOMAIN map
             /\ map[id_] # <<>> /\ stream # map[id_][1]
        THEN [line |-> map[id_][1], counted |-> 1]
        ELSE [line |-> stream, counted |-> 0]

\* new_stream for the stream line raw, and whether it counts as a replacement
NewStream(raw, map) ==
    LET stream == Strip(raw)
        found  == PremiumSearch(stream) # 0
        id_    == PremiumGroup1(stream)
    IN  IF found /\ id_ \in DOMAIN map
             /\ ~InList(stream, map[id_]) /\ map[id_] # <<>>
        THEN [line |-> map[id_][1], counted |-> 1]
        ELSE [line |-> stream, counted |-> 0]

\* RewriteLoop stripping the lines of its else branch too
RECURSIVE RewriteLoopStripAll(_, _, _)
RewriteLoopStripAll(ls, i, map) ==
    IF i > Len(ls) THEN [out_lines |-> <<>>, replaced |-> 0]
    ELSE IF StartsWithExtinf(ls[i]) /\ i + 1 <= Len(ls)
         THEN LET rest == RewriteLoopStripAll(ls, i + 2, map)
                  new  == NewStream(ls[i + 1], map)
              IN  [out_lines |-> <<ls[i], new.line>> \o rest.out_lines,
                   replaced  |-> new.counted + rest.replaced]
         ELSE LET rest == RewriteLoopStripAll(ls, i + 1, map)
              IN  [out_lines |-> <<Strip(ls[i])>> \o rest.out_lines,
                   replaced  |-> rest.replaced]

\* RewriteLoop taking a line that starts with #EXTINF for a metadata line
\* also when it comes right after one
RECURSIVE RewriteLoopResync(_, _, _)
RewriteLoopResync(ls, i, map) ==
    IF i > Len(ls) THEN [out_lines |-> <<>>, replaced |-> 0]
    ELSE IF StartsWithExtinf(ls[i]) /\ i + 1 <= Len(ls)
            /\ ~StartsWithExtinf(ls[i + 1])
         THEN LET rest == RewriteLoopResync(ls, i + 2, map)
                  new  == NewStream(ls[i + 1], map)
              IN  [out_lines |-> <<ls[i], new.line>> \o rest.out_lines,
                   replaced  |-> new.counted + rest.replaced]
         ELSE LET rest == RewriteLoopResync(ls, i + 1, map)
              IN  [out_lines |-> <<ls[i]>> \o rest.out_lines,
                   replaced  |-> rest.replaced]

\* the while loop of rewrite_streams from index i on: [out_lines, replaced]
RECURSIVE RewriteLoop(_, _, _)
RewriteLoop(ls, i, map) ==
    IF i > Len(ls) THEN [out_lines |-> <<>>, replaced |-> 0]
    ELSE IF StartsWithExtinf(ls[i]) /\ i + 1 <= Len(ls)
         THEN LET rest == RewriteLoop(ls, i + 2, map)
                  new  == NewStream(ls[i + 1], map)
              IN  [out_lines |-> <<ls[i], new.line>> \o rest.out_lines,
                   replaced  |-> new.counted + rest.replaced]
         ELSE LET rest == RewriteLoop(ls, i + 1, map)
              IN  [out_lines |-> <<ls[i]>> \o rest.out_lines,
                   replaced  |-> rest.replaced]

\* what rewrite_streams writes: "\n".join(out_lines) + "\n"
PlaylistText(lines_out) == JoinNL(lines_out) \o <<NL>>

(***************************************************************************)
(* The inputs the model draws from.                                        *)
(***************************************************************************)
ExtinfLine == <<EXTINF, ":-1,Channel">>
OldUrl(id) == <<"https://old-host.example/", PremiumWord, id, MonoTail>>
Padded(line) == <<WS>> \o line \o <<WS>>
OtherUrl == <<"https://old-host.example/", "index.m3u8">>
Blank == <<>>

SeqsUpTo(S, n) == UNION {[1..k -> S] : k \in 0..n}

\* the lines of the playlists given to the whole pipeline (one identifier)
PipelineLineSet ==
    {ExtinfLine, OldUrl("7"), Padded(Format(URL_TEMPLATES[2], "7")),
     Padded(OtherUrl), Blank}

PipelineFiles == {JoinNL(ls) : ls \in SeqsUpTo(PipelineLineSet, MaxPipeLines)}

VARIABLES
    playlistFile,   \* content of INPUT_PLAYLIST (tivimate_playlist.m3u8)
    linksFile,      \* content of VALID_LINKS_OUT (links.m3u8)
    orig_file,      \* content of INPUT_PLAYLIST when the run began
    pc,             \* where main is
    exit_code,      \* exit status of the process, -1 while it runs
    workers,        \* max_workers of the pool
    ids,            \* validate_links: ids
    candidates,     \* validate_links: candidates
    probe,          \* per candidate: "queued", "running", "live" or "dead"
    valid,          \* validate_links: valid
    last_ok,        \* per candidate: the last response to its probe was a 200
    id_to_valids,   \* main: id_to_valids
    lines,          \* rewrite_streams: lines
    out_lines,      \* rewrite_streams: out_lines
    replaced,       \* rewrite_streams: replaced
    ck,             \* check: the state of one probe looked at alone
    ck_log,         \* check: what that probe did, <<kind, attempt, value>> each
    run,            \* which run of rewrite_streams this is
    first_out       \* the playlist as the first run of rewrite_streams left it

vars == <<playlistFile, linksFile, orig_file, pc, exit_code, workers, ids,
          candidates, probe, valid, last_ok, id_to_valids, lines, out_lines,
          replaced, ck, ck_log, run, first_out>>

files == <<playlistFile, linksFile>>
validateVars == <<ids, candidates, probe, valid, last_ok>>
rewriteVars == <<lines, out_lines, replaced>>
checkVars == <<ck, ck_log>>
rerunVars == <<run, first_out>>

(***************************************************************************)
(* main: validate_links, build_map, rewrite_streams.                       *)
(***************************************************************************)
Init ==
    /\ playlistFile \in PipelineFiles \cup {Absent}
    /\ linksFile = Absent
    /\ orig_file = playlistFile
    /\ pc = "validate"
    /\ exit_code = -1
    /\ workers \in {SmallPool, DefaultWorkers}
    /\ ids = {}
    /\ candidates = <<>>
    /\ probe = <<>>
    /\ last_ok = <<>>
    /\ valid = <<>>
    /\ id_to_valids = <<>>
    /\ lines = <<>>
    /\ out_lines = <<>>
    /\ replaced = 0
    /\ ck = CheckIdle
    /\ ck_log = <<>>
    /\ run = 1
    /\ first_out = Absent

\* ValidateScan without the test "if not ids"
ValidateScanNoAbort ==
    /\ pc = "validate"
    /\ IF playlistFile = Absent
       THEN /\ pc' = "crashed"
            /\ exit_code' = ExitFailure
            /\ UNCHANGED validateVars
       ELSE LET found == ExtractIds(ScanStreams(SplitLines(playlistFile), 1))
            IN  \E order \in IterationOrders(found) :
                    /\ ids' = found
                    /\ candidates' = Candidates(order)
                    /\ probe' = [k \in DOMAIN Candidates(order) |-> "queued"]
                    /\ last_ok' = [k \in DOMAIN Candidates(order) |-> FALSE]
                    /\ valid' = <<>>
                    /\ pc' = "probing"
                    /\ UNCHANGED exit_code
    /\ UNCHANGED <<files, orig_file, workers, id_to_valids, rewriteVars,
                   checkVars, rerunVars>>

\* validate_links up to the submission of the probes: read, scan, ids, candidates
ValidateScan ==
    /\ pc = "validate"
    /\ IF playlistFile = Absent
       THEN /\ pc' = "crashed"
            /\ exit_code' = ExitFailure
            /\ UNCHANGED validateVars
       ELSE LET found == ExtractIds(ScanStreams(SplitLines(playlistFile), 1))
            IN  IF found = {}
                THEN /\ pc' = "aborted"
                     /\ exit_code' = ExitFailure
                     /\ UNCHANGED validateVars
                ELSE \E order \in IterationOrders(found) :
                        /\ ids' = found
                        /\ candidates' = Candidates(order)
                        /\ probe' = [k \in DOMAIN Candidates(order) |-> "queued"]
                        /\ last_ok' = [k \in DOMAIN Candidates(order) |-> FALSE]
                        /\ valid' = <<>>
                        /\ pc' = "probing"
                        /\ UNCHANGED exit_code
    /\ UNCHANGED <<files, orig_file, workers, id_to_valids, rewriteVars,
                   checkVars, rerunVars>>

Running == {k \in DOMAIN probe : probe[k] = "running"}
Queued == {k \in DOMAIN probe : probe[k] = "queued"}

\* ProbeStart with a thread per submitted probe
ProbeStartUnbounded(k) ==
    /\ pc = "probing"
    /\ probe[k] = "queued"
    /\ \A j \in Queued : k <= j
    /\ probe' = [probe EXCEPT ![k] = "running"]
    /\ UNCHANGED <<files, orig_file, pc, exit_code, workers, ids, candidates,
                   valid, last_ok, id_to_valids, rewriteVars,
                   checkVars, rerunVars>>

\* a free worker of the pool takes the oldest queued probe
ProbeStart(k) ==
    /\ pc = "probing"
    /\ probe[k] = "queued"
    /\ \A j \in Queued : k <= j
    /\ Cardinality(Running) < workers
    /\ probe' = [probe EXCEPT ![k] = "running"]
    /\ UNCHANGED <<files, orig_file, pc, exit_code, workers, ids, candidates,
                   valid, last_ok, id_to_valids, rewriteVars,
                   checkVars, rerunVars>>

\* ProbeReturn with a dead candidate raising out of fut.result()
ProbeReturnRaises(k) ==
    /\ pc = "probing"
    /\ probe[k] = "running"
    /\ \E r \in ProbeRuns :
        LET res == CheckResult(candidates[k], r[1])
        IN  /\ probe' = [probe EXCEPT ![k] = IF r[1] THEN "live" ELSE "dead"]
            /\ last_ok' = [last_ok EXCEPT ![k] = r[2]]
            /\ valid' = IF res # None THEN Append(valid, res) ELSE valid
            /\ pc' = IF res # None THEN pc ELSE "crashed"
            /\ exit_code' = IF res # None THEN exit_code ELSE ExitFailure
    /\ UNCHANGED <<files, orig_file, workers, ids, candidates,
                   id_to_valids, rewriteVars,
                   checkVars, rerunVars>>

\* check(candidates[k]) returns; as_completed yields it; if res: valid.append(res)
ProbeReturn(k) ==
    /\ pc = "probing"
    /\ probe[k] = "running"
    /\ \E r \in ProbeRuns :
        LET res == CheckResult(candidates[k], r[1])
        IN  /\ probe' = [probe EXCEPT ![k] = IF r[1] THEN "live" ELSE "dead"]
            /\ last_ok' = [last_ok EXCEPT ![k] = r[2]]
            /\ valid' = IF res # None THEN Append(valid, res) ELSE valid
    /\ UNCHANGED <<files, orig_file, pc, exit_code, workers, ids, candidates,
                   id_to_valids, rewriteVars,
                   checkVars, rerunVars>>

\* WriteLinks going on as soon as no probe is left in the queue
WriteLinksEarly ==
    /\ pc = "probing"
    /\ Queued = {}
    /\ linksFile' = JoinNL(valid)
    /\ pc' = "build_map"
    /\ UNCHANGED <<playlistFile, orig_file, exit_code, workers, validateVars,
                   id_to_valids, rewriteVars,
                   checkVars, rerunVars>>

\* the pool is joined, then: fout.write("\n".join(valid)); return valid
WriteLinks ==
    /\ pc = "probing"
    /\ \A k \in DOMAIN probe : probe[k] \in {"live", "dead"}
    /\ linksFile' = JoinNL(valid)
    /\ pc' = "build_map"
    /\ UNCHANGED <<playlistFile, orig_file, exit_code, workers, validateVars,
                   id_to_valids, rewriteVars,
                   checkVars, rerunVars>>

\* id_to_valids = build_map(valid)
BuildMap ==
    /\ pc = "build_map"
    /\ id_to_valids' = build_map(valid)
    /\ pc' = "rewrite"
    /\ UNCHANGED <<files, orig_file, exit_code, workers, validateVars,
                   rewriteVars,
                   checkVars, rerunVars>>

\* rewrite_streams: the playlist is read again and rewritten in memory
RewriteScan ==
    /\ pc = "rewrite"
    /\ IF playlistFile = Absent
       THEN /\ pc' = "crashed"
            /\ exit_code' = ExitFailure
            /\ UNCHANGED rewriteVars
       ELSE LET r == RewriteLoop(SplitLines(playlistFile), 1, id_to_valids)
            IN  /\ lines' = SplitLines(playlistFile)
                /\ out_lines' = r.out_lines
                /\ replaced' = r.replaced
                /\ pc' = "open"
                /\ UNCHANGED exit_code
    /\ UNCHANGED <<files, orig_file, workers, validateVars, id_to_valids,
                   checkVars, rerunVars>>

\* open(src, "w"): the file is truncated
RewriteOpen ==
    /\ pc = "open"
    /\ playlistFile' = <<>>
    /\ pc' = "write"
    /\ UNCHANGED <<linksFile, orig_file, exit_code, workers, validateVars,
                   id_to_valids, rewriteVars,
                   checkVars, rerunVars>>

\* fout.write("\n".join(out_lines) + "\n"), and the file is closed
RewriteWrite ==
    /\ pc = "write"
    /\ playlistFile' = PlaylistText(out_lines)
    /\ pc' = "rewritten"
    /\ UNCHANGED <<linksFile, orig_file, exit_code, workers, validateVars,
                   id_to_valids, rewriteVars,
                   checkVars, rerunVars>>

\* main returns after rewrite_streams
MainDone ==
    /\ pc = "rewritten"
    /\ pc' = "done"
    /\ exit_code' = ExitSuccess
    /\ UNCHANGED <<files, orig_file, workers, validateVars, id_to_valids,
                   rewriteVars,
                   checkVars, rerunVars>>

\* the process is interrupted (SIGINT, SIGKILL) while in rewrite_streams, and
\* ends with a non-zero status
Interrupt ==
    /\ pc \in {"rewrite", "open", "write"}
    /\ pc' = "interrupted"
    /\ exit_code' = ExitFailure
    /\ UNCHANGED <<files, orig_file, workers, validateVars, id_to_valids,
                   rewriteVars,
                   checkVars, rerunVars>>

Next ==
    \/ ValidateScan
    \/ \E k \in DOMAIN probe : ProbeStart(k)
    \/ \E k \in DOMAIN probe : ProbeReturn(k)
    \/ WriteLinks
    \/ BuildMap
    \/ RewriteScan
    \/ RewriteOpen
    \/ RewriteWrite
    \/ MainDone
    \/ Interrupt

Spec == Init /\ [][Next]_vars

(***************************************************************************)
(* A run that nothing interrupts.  Once the probes are submitted every     *)
(* thread of the pool is scheduled, every request ends (timeout=10), every *)
(* sleep ends and the main thread goes on after the pool is joined: a step *)
(* that can be taken is taken.                                             *)
(***************************************************************************)
NextRun ==
    \/ ValidateScan
    \/ \E k \in DOMAIN probe : ProbeStart(k)
    \/ \E k \in DOMAIN probe : ProbeReturn(k)
    \/ WriteLinks
    \/ BuildMap
    \/ RewriteScan
    \/ RewriteOpen
    \/ RewriteWrite
    \/ MainDone

\* the steps of the pool and of the main thread after the probes are submitted,
\* but for the while loop of rewrite_streams
StepsAfterSubmit ==
    \/ \E k \in DOMAIN probe : ProbeStart(k)
    \/ \E k \in DOMAIN probe : ProbeReturn(k)
    \/ WriteLinks
    \/ BuildMap
    \/ RewriteOpen
    \/ RewriteWrite
    \/ MainDone

\* the while loop of rewrite_streams ends: RewriteScan is enabled exactly when
\* pc = "rewrite", and it is the only step of NextRun that leaves that stage
RewriteScanEnds == pc = "rewrite" /\ pc' \in {"open", "crashed"}

\* the playlists of these runs: one pair of lines at most
RunFiles == {JoinNL(ls) : ls \in SeqsUpTo(PipelineLineSet, MaxRunLines)}

InitRun ==
    /\ playlistFile \in RunFiles \cup {Absent}
    /\ linksFile = Absent
    /\ orig_file = playlistFile
    /\ pc = "validate"
    /\ exit_code = -1
    /\ workers \in {SmallPool, DefaultWorkers}
    /\ ids = {}
    /\ candidates = <<>>
    /\ probe = <<>>
    /\ last_ok = <<>>
    /\ valid = <<>>
    /\ id_to_valids = <<>>
    /\ lines = <<>>
    /\ out_lines = <<>>
    /\ replaced = 0
    /\ ck = CheckIdle
    /\ ck_log = <<>>
    /\ run = 1
    /\ first_out = Absent

SpecRun ==
    InitRun /\ [][NextRun]_vars /\ WF_vars(StepsAfterSubmit) /\ WF_pc(RewriteScanEnds)

(***************************************************************************)
(* check(url) looked at alone, one request or sleep per step.              *)
(***************************************************************************)
InitCheck ==
    /\ playlistFile = Absent
    /\ linksFile = Absent
    /\ orig_file = Absent
    /\ pc = "check"
    /\ exit_code = -1
    /\ workers = DefaultWorkers
    /\ ids = {}
    /\ candidates = <<>>
    /\ probe = <<>>
    /\ last_ok = <<>>
    /\ valid = <<>>
    /\ id_to_valids = <<>>
    /\ lines = <<>>
    /\ out_lines = <<>>
    /\ replaced = 0
    /\ ck = CheckStart
    /\ ck_log = <<>>
    /\ run = 1
    /\ first_out = Absent

pipelineVars == <<files, orig_file, pc, exit_code, workers, validateVars,
                  id_to_valids, rewriteVars, rerunVars>>

\* r = requests.head(url, ...)
CheckHead ==
    /\ ck.pc = "head"
    /\ \E r \in Responses :
        /\ ck' = HeadNext(ck, r)
        /\ ck_log' = Append(ck_log, <<"HEAD", ck.attempt, r>>)
    /\ UNCHANGED pipelineVars

\* time.sleep(5)
CheckSleep ==
    /\ ck.pc = "sleep"
    /\ ck' = SleepNext(ck)
    /\ ck_log' = Append(ck_log, <<"SLEEP", ck.attempt, BackoffSeconds>>)
    /\ UNCHANGED pipelineVars

\* r = requests.get(url, ...)
CheckGet ==
    /\ ck.pc = "get"
    /\ \E r \in Responses :
        /\ ck' = GetNext(ck, r)
        /\ ck_log' = Append(ck_log, <<"GET", ck.attempt, r>>)
    /\ UNCHANGED pipelineVars

NextCheck == CheckHead \/ CheckSleep \/ CheckGet

SpecCheck == InitCheck /\ [][NextCheck]_vars

\* the thread that runs check is scheduled, each request ends (timeout=10)
\* and the sleep ends
SpecCheckRun == InitCheck /\ [][NextCheck]_vars /\ WF_vars(NextCheck)

(***************************************************************************)
(* rewrite_streams looked at alone, on any playlist and any map build_map  *)
(* returns, and run a second time on its own output with the same map.     *)
(***************************************************************************)
RewriteLineSet ==
    {ExtinfLine, OldUrl("7"), Padded(Format(URL_TEMPLATES[2], "7")),
     OldUrl("8"), Padded(OtherUrl), Blank}

RewriteFiles == {JoinNL(ls) : ls \in SeqsUpTo(RewriteLineSet, MaxLines)}

\* the URLs validate_links returns here: candidates of the first three
\* templates for identifier 7, and one candidate for identifier 8
RewriteCandidates ==
    {Candidates(<<"7">>)[k] : k \in 1..3} \cup {Format(URL_TEMPLATES[1], "8")}

\* the lists validate_links can return: candidates, each at most once, any order
ValidLists ==
    {v \in SeqsUpTo(RewriteCandidates, MaxValid) :
        \A a, b \in DOMAIN v : a # b => v[a] # v[b]}

InitRewrite ==
    /\ playlistFile \in RewriteFiles
    /\ linksFile = Absent
    /\ orig_file = playlistFile
    /\ pc = "rewrite"
    /\ exit_code = -1
    /\ workers = DefaultWorkers
    /\ ids = {}
    /\ candidates = <<>>
    /\ probe = <<>>
    /\ last_ok = <<>>
    /\ valid \in ValidLists
    /\ id_to_valids = build_map(valid)
    /\ lines = <<>>
    /\ out_lines = <<>>
    /\ replaced = 0
    /\ ck = CheckIdle
    /\ ck_log = <<>>
    /\ run = 1
    /\ first_out = Absent

\* rewrite_streams(id_to_valids=id_to_valids) is called once more
RewriteAgain ==
    /\ pc = "rewritten"
    /\ run = 1
    /\ run' = 2
    /\ first_out' = playlistFile
    /\ pc' = "rewrite"
    /\ UNCHANGED <<files, orig_file, exit_code, workers, validateVars,
                   id_to_valids, rewriteVars, checkVars>>

NextRewrite ==
    \/ RewriteScan
    \/ RewriteOpen
    \/ RewriteWrite
    \/ RewriteAgain

SpecRewrite == InitRewrite /\ [][NextRewrite]_vars

(***************************************************************************)
(* The scan of validate_links looked at alone, on playlists long enough    *)
(* for three pairs of lines and with two identifiers.                      *)
(***************************************************************************)
ScanLineSet == {ExtinfLine, OldUrl("7"), Padded(OldUrl("8")), OtherUrl}

ScanFiles == {JoinNL(ls) : ls \in SeqsUpTo(ScanLineSet, MaxScanLines)}

InitScan ==
    /\ playlistFile \in ScanFiles
    /\ linksFile = Absent
    /\ orig_file = playlistFile
    /\ pc = "validate"
    /\ exit_code = -1
    /\ workers = DefaultWorkers
    /\ ids = {}
    /\ candidates = <<>>
    /\ probe = <<>>
    /\ last_ok = <<>>
    /\ valid = <<>>
    /\ id_to_valids = <<>>
    /\ lines = <<>>
    /\ out_lines = <<>>
    /\ replaced = 0
    /\ ck = CheckIdle
    /\ ck_log = <<>>
    /\ run = 1
    /\ first_out = Absent

NextScan == ValidateScan

SpecScan == InitScan /\ [][NextScan]_vars

(***************************************************************************)
(* build_map looked at alone, on the lists validate_links can return for   *)
(* a playlist with two identifiers.                                        *)
(***************************************************************************)
\* candidates of the first three templates for each of two identifiers
MapCandidates ==
    {Candidates(<<"7", "8">>)[k] : k \in {1, 2, 3, 6, 7, 8}}

\* the lists validate_links can return: candidates, each at most once, any order
MapInputs ==
    {v \in SeqsUpTo(MapCandidates, MaxMapLinks) :
        \A a, b \in DOMAIN v : a # b => v[a] # v[b]}

InitMap ==
    /\ playlistFile = Absent
    /\ linksFile = Absent
    /\ orig_file = playlistFile
    /\ pc = "build_map"
    /\ exit_code = -1
    /\ workers = DefaultWorkers
    /\ ids = {}
    /\ candidates = <<>>
    /\ probe = <<>>
    /\ last_ok = <<>>
    /\ valid \in MapInputs
    /\ id_to_valids = <<>>
    /\ lines = <<>>
    /\ out_lines = <<>>
    /\ replaced = 0
    /\ ck = CheckIdle
    /\ ck_log = <<>>
    /\ run = 1
    /\ first_out = Absent

NextMap == BuildMap

SpecMap == InitMap /\ [][NextMap]_vars

(***************************************************************************)
(* The stages after validate_links, with another process adding lines to   *)
(* the playlist once between the read of validate_links and the read of    *)
(* rewrite_streams.                                                        *)
(***************************************************************************)
\* the playlists validate_links does not give up on
ProbedFiles ==
    {f \in RunFiles : ExtractIds(ScanStreams(SplitLines(f), 1)) # {}}

\* what the other process adds: one line, or an #EXTINF line and its stream
\* line, with an identifier the playlist did not have
EditLineSet == {ExtinfLine, OldUrl("8"), Padded(OldUrl("8")), OtherUrl}

AddedBlocks ==
    {<<l>> : l \in EditLineSet} \cup {<<ExtinfLine, l>> : l \in EditLineSet}

InsertAt(ls, p, block) ==
    SubSeq(ls, 1, p) \o block \o SubSeq(ls, p + 1, Len(ls))

\* validate_links has returned valid for the playlist it read
InitEdit ==
    /\ playlistFile \in ProbedFiles
    /\ orig_file = playlistFile
    /\ pc = "build_map"
    /\ exit_code = -1
    /\ workers = DefaultWorkers
    /\ ids = ExtractIds(ScanStreams(SplitLines(playlistFile), 1))
    /\ \E order \in IterationOrders(ids) : candidates = Candidates(order)
    /\ valid \in {v \in ValidLists : \A i \in DOMAIN v : InList(v[i], candidates)}
    /\ probe = [k \in DOMAIN candidates |->
                    IF InList(candidates[k], valid) THEN "live" ELSE "dead"]
    /\ last_ok = [k \in DOMAIN candidates |-> InList(candidates[k], valid)]
    /\ linksFile = JoinNL(valid)
    /\ id_to_valids = <<>>
    /\ lines = <<>>
    /\ out_lines = <<>>
    /\ replaced = 0
    /\ ck = CheckIdle
    /\ ck_log = <<>>
    /\ run = 1
    /\ first_out = Absent

\* another process writes the playlist with lines added, before
\* rewrite_streams reads it
ExternalEdit ==
    /\ pc \in {"build_map", "rewrite"}
    /\ playlistFile = orig_file
    /\ \E block \in AddedBlocks :
        \E p \in 0..Len(SplitLines(playlistFile)) :
            playlistFile' = JoinNL(InsertAt(SplitLines(playlistFile), p, block))
    /\ UNCHANGED <<linksFile, orig_file, pc, exit_code, workers, validateVars,
                   id_to_valids, rewriteVars, checkVars, rerunVars>>

NextEdit ==
    \/ ExternalEdit
    \/ BuildMap
    \/ RewriteScan
    \/ RewriteOpen
    \/ RewriteWrite
    \/ MainDone

SpecEdit == InitEdit /\ [][NextEdit]_vars

(***************************************************************************)
(* The uninterrupted pipeline on playlists made of #EXTINF lines and       *)
(* stream lines in any arrangement: #EXTINF lines in a row, at the end,    *)
(* stream lines in a row.  The #EXTINF line ends with whitespace, so that  *)
(* it shows whether it was emitted as read or stripped.                    *)
(***************************************************************************)
ExtinfTrailing == ExtinfLine \o <<WS>>

PairLineSet == {ExtinfTrailing, OldUrl("7")}

PairFiles == {JoinNL(ls) : ls \in SeqsUpTo(PairLineSet, MaxPairLines)}

InitPair ==
    /\ playlistFile \in PairFiles
    /\ linksFile = Absent
    /\ orig_file = playlistFile
    /\ pc = "validate"
    /\ exit_code = -1
    /\ workers = DefaultWorkers
    /\ ids = {}
    /\ candidates = <<>>
    /\ probe = <<>>
    /\ last_ok = <<>>
    /\ valid = <<>>
    /\ id_to_valids = <<>>
    /\ lines = <<>>
    /\ out_lines = <<>>
    /\ replaced = 0
    /\ ck = CheckIdle
    /\ ck_log = <<>>
    /\ run = 1
    /\ first_out = Absent

SpecPair == InitPair /\ [][NextRun]_vars

(***************************************************************************)
(* What the claims speak of.                                               *)
(***************************************************************************)
\* line j of ls is the line right after an #EXTINF line that is not itself
\* the stream line of the line before it
RECURSIVE IsStreamPos(_, _)
IsStreamPos(ls, j) ==
    /\ j >= 2
    /\ j <= Len(ls)
    /\ StartsWithExtinf(ls[j - 1])
    /\ ~IsStreamPos(ls, j - 1)

StreamPositions(ls) == {j \in 1..Len(ls) : IsStreamPos(ls, j)}

\* the stream line matches the premium pattern
Matches(line) == PremiumSearch(line) # 0

\* the stream line matches and its identifier has entries in the map
HasEntries(line, map) ==
    Matches(line) /\ PremiumGroup1(line) \in DOMAIN map

\* the entries of the map for the identifier of a line that has some
EntriesFor(line, map) == map[PremiumGroup1(line)]

\* rewrite_streams has finished its loop over the lines
Scanned == pc \in {"open", "write", "rewritten", "done", "interrupted"}

\* the place of the template a candidate was built from
TemplateIndex(u) ==
    CHOOSE t \in DOMAIN URL_TEMPLATES :
        \E id \in Digits : Format(URL_TEMPLATES[t], id) = u

IsLive(u) == InList(u, valid)

\* the confirmed-live URLs, in the order in which they were submitted
ValidInSubmissionOrder == SelectSeq(candidates, IsLive)

\* the playlist rewrite_streams writes for the original file and a given map
RewrittenWith(map) ==
    PlaylistText(RewriteLoop(SplitLines(orig_file), 1, map).out_lines)

\* the number of HEAD requests of the log answered by status
HeadCount(log, status) ==
    Cardinality({i \in DOMAIN log : log[i][1] = "HEAD" /\ log[i][3] = status})

(***************************************************************************)
(* C1: for a fixed playlist and fixed live candidates, the playlist a run  *)
(* ends with is the same for every order in which the probes complete: it  *)
(* is the one of the run whose probes complete in submission order.        *)
(***************************************************************************)
C1_OutputIndependentOfCompletionOrder ==
    pc = "done" =>
        playlistFile = RewrittenWith(build_map(ValidInSubmissionOrder))

(***************************************************************************)
(* C2: every list of the Validity Map is in URL_TEMPLATES order, and a     *)
(* stream line that is not live and has live candidates is replaced by the *)
(* live candidate of the earliest template.                                *)
(***************************************************************************)
C2_MapInTemplateOrder ==
    pc \in {"rewrite", "open", "write", "rewritten", "done"} =>
        /\ \A id \in DOMAIN id_to_valids :
            \A a, b \in DOMAIN id_to_valids[id] :
                a < b => TemplateIndex(id_to_valids[id][a])
                            < TemplateIndex(id_to_valids[id][b])
        /\ Scanned =>
            \A j \in StreamPositions(lines) :
                (/\ HasEntries(Strip(lines[j]), id_to_valids)
                 /\ ~IsLive(Strip(lines[j])))
                => \A u \in {valid[k] : k \in DOMAIN valid} :
                    PremiumGroup1(u) = PremiumGroup1(Strip(lines[j]))
                    => TemplateIndex(out_lines[j]) <= TemplateIndex(u)

(***************************************************************************)
(* C3: a second run of rewrite_streams with the same map on the output of  *)
(* the first makes no replacement and writes the same file again.          *)
(***************************************************************************)
C3_RewriteIdempotent ==
    /\ (run = 2 /\ Scanned) => replaced = 0
    /\ (run = 2 /\ pc = "rewritten") => playlistFile = first_out

\* the second run is over, and the first had replaced a stream line
C3_Witness ==
    /\ run = 2
    /\ pc = "rewritten"
    /\ \E j \in StreamPositions(SplitLines(orig_file)) :
        /\ HasEntries(Strip(SplitLines(orig_file)[j]), id_to_valids)
        /\ SplitLines(first_out)[j] # Strip(SplitLines(orig_file)[j])

(***************************************************************************)
(* C4: a stream line that does not match the premium pattern, or whose     *)
(* identifier has no entry in the map, is emitted exactly as it was read,  *)
(* leading and trailing whitespace included.                               *)
(***************************************************************************)
C4_UnmatchedByteIdentical ==
    Scanned =>
        \A j \in StreamPositions(lines) :
            ~HasEntries(lines[j], id_to_valids) => out_lines[j] = lines[j]

(***************************************************************************)
(* C5: rewrite_streams emits one line per line read, and every line that   *)
(* neither starts with #EXTINF nor is a paired stream line is emitted      *)
(* unchanged at its own position.                                          *)
(***************************************************************************)
C5_PassThrough ==
    Scanned =>
        /\ Len(out_lines) = Len(lines)
        /\ \A i \in 1..Len(lines) :
            (~StartsWithExtinf(lines[i]) /\ ~IsStreamPos(lines, i))
            => out_lines[i] = lines[i]

\* a padded line outside every pair went through a run that replaced a line
C5_Witness ==
    /\ pc = "rewritten"
    /\ replaced > 0
    /\ \E i \in 1..Len(lines) :
        /\ ~StartsWithExtinf(lines[i])
        /\ ~IsStreamPos(lines, i)
        /\ lines[i] # Strip(lines[i])

(***************************************************************************)
(* C6: when the playlist cannot be read or has no stream line matching the *)
(* premium pattern, the run ends with a non-zero exit, no probe is ever    *)
(* started (so no HEAD or GET is issued) and neither file is written.      *)
(***************************************************************************)
C6_FatalPath ==
    (\/ orig_file = Absent
     \/ \A j \in StreamPositions(SplitLines(orig_file)) :
            ~Matches(SplitLines(orig_file)[j]))
    => /\ pc \in {"validate", "aborted", "crashed"}
       /\ pc # "validate" => exit_code = ExitFailure /\ exit_code # ExitSuccess
       /\ \A k \in DOMAIN probe : probe[k] = "queued"
       /\ candidates = <<>>
       /\ linksFile = Absent
       /\ playlistFile = orig_file

\* a playlist with a pair whose stream line does not match was given up
C6_Witness ==
    /\ pc = "aborted"
    /\ exit_code = ExitFailure
    /\ StreamPositions(SplitLines(orig_file)) # {}

(***************************************************************************)
(* C7: 429 then 200 on attempt 2 is live; 429 on all three attempts is     *)
(* dead; every 429 to a HEAD uses up its attempt and is followed by the    *)
(* 5 s sleep before the HEAD of the next attempt.                          *)
(***************************************************************************)
C7_RetryBackoff ==
    /\ (/\ Len(ck_log) >= 1
        /\ ck_log[1] = <<"HEAD", 1, HTTP_TOO_MANY>>
        /\ \E i \in DOMAIN ck_log : ck_log[i] = <<"HEAD", 2, HTTP_OK>>)
       => (ck.pc = "returned" /\ ck.live)
    /\ HeadCount(ck_log, HTTP_TOO_MANY) = MaxAttempts
       => /\ ck.pc \in {"sleep", "returned"}
          /\ ~ck.live
          /\ Len(ck_log) = MaxAttempts + HeadCount(ck_log, HTTP_TOO_MANY)
                                - (IF ck.pc = "sleep" THEN 1 ELSE 0)
    /\ \A i \in DOMAIN ck_log :
        (ck_log[i][1] = "HEAD" /\ ck_log[i][3] = HTTP_TOO_MANY)
        => /\ ck_log[i][2] <= MaxAttempts
           /\ IF i = Len(ck_log)
              THEN ck.pc = "sleep" /\ ck.attempt = ck_log[i][2]
              ELSE /\ ck_log[i + 1] = <<"SLEEP", ck_log[i][2], BackoffSeconds>>
                   /\ i + 2 <= Len(ck_log)
                      => /\ ck_log[i + 2][1] = "HEAD"
                         /\ ck_log[i + 2][2] = ck_log[i][2] + 1

\* the probe returned after three HEAD requests answered 429
C7_Witness ==
    /\ ck.pc = "returned"
    /\ HeadCount(ck_log, HTTP_TOO_MANY) = MaxAttempts

(***************************************************************************)
(* C8: the playlist file always holds either the complete original content *)
(* or the complete rewritten content, also when rewrite_streams is         *)
(* interrupted.                                                            *)
(***************************************************************************)
C8_FileNeverInconsistent ==
    \/ playlistFile = orig_file
    \/ (Scanned /\ playlistFile = PlaylistText(out_lines))

(***************************************************************************)
(* C9: a stream line that matches, whose identifier has entries and whose  *)
(* URL is not among them, is replaced by the first entry; the #EXTINF line *)
(* before it is emitted unchanged.                                         *)
(***************************************************************************)
C9_ReplacedByFirstEntry ==
    Scanned =>
        \A j \in StreamPositions(lines) :
            (/\ HasEntries(Strip(lines[j]), id_to_valids)
             /\ ~InList(Strip(lines[j]), EntriesFor(Strip(lines[j]), id_to_valids)))
            => /\ out_lines[j] = EntriesFor(Strip(lines[j]), id_to_valids)[1]
               /\ out_lines[j - 1] = lines[j - 1]

\* a line was replaced although its identifier had two entries
C9_Witness ==
    /\ pc = "rewritten"
    /\ run = 1
    /\ \E j \in StreamPositions(lines) :
        /\ HasEntries(Strip(lines[j]), id_to_valids)
        /\ ~InList(Strip(lines[j]), EntriesFor(Strip(lines[j]), id_to_valids))
        /\ Len(EntriesFor(Strip(lines[j]), id_to_valids)) >= 2

(***************************************************************************)
(* C10: a stream line whose URL is among the entries of its identifier     *)
(* keeps that URL, first entry or not, and is not counted as replaced.     *)
(***************************************************************************)
KeptValid(j) ==
    /\ HasEntries(Strip(lines[j]), id_to_valids)
    /\ InList(Strip(lines[j]), EntriesFor(Strip(lines[j]), id_to_valids))

C11_ProbeFailuresNeverAbort ==
    /\ (pc = "probing") ~> (pc = "done" /\ exit_code = ExitSuccess)
    /\ [](exit_code = ExitFailure
            => (pc \in {"aborted", "crashed"} /\ candidates = <<>>))
    /\ [](pc = "done" => (linksFile # Absent /\ playlistFile = PlaylistText(out_lines)))

\* the run ended although every candidate was dead
C11_Witness ==
    /\ pc = "done"
    /\ exit_code = ExitSuccess
    /\ Len(candidates) = Len(URL_TEMPLATES)
    /\ \A k \in DOMAIN probe : probe[k] = "dead"

(***************************************************************************)
(* C12: never more probes in flight than the pool has workers.             *)
(***************************************************************************)
C12_BoundedConcurrency == Cardinality(Running) <= workers

\* the pool is full and a probe waits in the queue
C12_Witness ==
    /\ Cardinality(Running) = workers
    /\ Queued # {}

(***************************************************************************)
(* C13: each candidate is one probe; the links file, build_map and         *)
(* rewrite_streams come only after every probe has its outcome, and the    *)
(* stages follow one another: validate, map, rewrite.                      *)
(***************************************************************************)
AllProbesDone == \A k \in DOMAIN probe : probe[k] \in {"live", "dead"}

C13_BarrierAndStageOrder ==
    /\ DOMAIN probe = DOMAIN candidates
    /\ pc \in {"build_map", "rewrite", "open", "write", "rewritten", "done",
               "interrupted"} => (AllProbesDone /\ linksFile # Absent)
    /\ linksFile # Absent => AllProbesDone
    /\ pc \in {"validate", "probing", "aborted"}
        => (linksFile = Absent /\ id_to_valids = <<>> /\ out_lines = <<>>
            /\ playlistFile = orig_file)
    /\ pc = "build_map"
        => (id_to_valids = <<>> /\ out_lines = <<>> /\ playlistFile = orig_file)
    /\ pc \in {"rewrite", "open", "write", "rewritten", "done", "interrupted"}
        => id_to_valids = build_map(valid)
    /\ pc = "rewrite" => (out_lines = <<>> /\ playlistFile = orig_file)
    /\ Len(valid) = Cardinality({k \in DOMAIN probe : probe[k] = "live"})

\* the barrier was passed with a small pool and probes of both outcomes
C13_Witness ==
    /\ pc = "build_map"
    /\ workers = SmallPool
    /\ \E k \in DOMAIN probe : probe[k] = "live"
    /\ \E k \in DOMAIN probe : probe[k] = "dead"

(***************************************************************************)
(* C14: valid, and the links file written from it one URL per line, holds  *)
(* a candidate exactly when the last response of its probe was a 200; it   *)
(* holds nothing but candidates and none of them twice.                    *)
(***************************************************************************)
C14_OnlyConfirmedLive ==
    /\ \A k \in DOMAIN probe :
        InList(candidates[k], valid)
            <=> (probe[k] \in {"live", "dead"} /\ last_ok[k])
    /\ \A i \in DOMAIN valid : \E k \in DOMAIN candidates : candidates[k] = valid[i]
    /\ \A i, j \in DOMAIN valid : i # j => valid[i] # valid[j]
    /\ linksFile # Absent
        => (linksFile = JoinNL(valid) /\ SplitLines(linksFile) = valid)

\* the links file was written with some candidates live and some dead
C14_Witness ==
    /\ linksFile # Absent
    /\ Len(valid) >= 2
    /\ \E k \in DOMAIN probe : probe[k] = "dead"

(***************************************************************************)
(* C15: validate_links takes identifiers only from lines that come right   *)
(* after an #EXTINF line, and rewrite_streams leaves every line that has   *)
(* no #EXTINF line before it as it was, whatever the Validity Map holds    *)
(* for its identifier.                                                     *)
(***************************************************************************)
NoExtinfBefore(ls, j) == j = 1 \/ ~StartsWithExtinf(ls[j - 1])

\* validate_links has just scanned the playlist
JustScanned ==
    \/ pc = "aborted"
    \/ pc = "probing" /\ \A k \in DOMAIN probe : probe[k] = "queued"

C15_PairingRule ==
    /\ JustScanned =>
        \A ls \in {SplitLines(orig_file)} :
            /\ \A id \in ids :
                \E j \in 2..Len(ls) :
                    /\ StartsWithExtinf(ls[j - 1])
                    /\ Matches(Strip(ls[j]))
                    /\ PremiumGroup1(Strip(ls[j])) = id
            /\ ids = {PremiumGroup1(Strip(ls[j])) :
                        j \in {i \in StreamPositions(ls) : Matches(Strip(ls[i]))}}
    /\ (Scanned /\ lines # <<>>) =>
        /\ Len(out_lines) = Len(lines)
        /\ \A j \in 1..Len(lines) :
            (NoExtinfBefore(lines, j) \/ ~IsStreamPos(lines, j))
                => out_lines[j] = lines[j]

\* the run ended with a matching line that no #EXTINF line precedes, kept
\* although the map has live candidates for its identifier and it is not one
C15_Witness ==
    /\ pc = "done"
    /\ \E j \in 1..Len(lines) :
        /\ NoExtinfBefore(lines, j)
        /\ HasEntries(lines[j], id_to_valids)
        /\ EntriesFor(lines[j], id_to_valids) # <<>>
        /\ ~InList(lines[j], EntriesFor(lines[j], id_to_valids))
        /\ out_lines[j] = lines[j]

(***************************************************************************)
(* C16: the candidates are one per pair of a unique identifier and one of  *)
(* the 5 templates, Cardinality(ids) * 5 in all, pairwise distinct, and    *)
(* the premium pattern finds in each the identifier it was built from.     *)
(***************************************************************************)
C16_CandidateGeneration ==
    pc = "probing" =>
        /\ Len(URL_TEMPLATES) = 5
        /\ Len(candidates) = Cardinality(ids) * 5
        /\ \A id \in ids : \A t \in DOMAIN URL_TEMPLATES :
            Cardinality({k \in DOMAIN candidates :
                            candidates[k] = Format(URL_TEMPLATES[t], id)}) = 1
        /\ \A a, b \in DOMAIN candidates : a # b => candidates[a] # candidates[b]
        /\ \A k \in DOMAIN candidates :
            /\ Matches(candidates[k])
            /\ PremiumGroup1(candidates[k]) \in ids
            /\ \E t \in DOMAIN URL_TEMPLATES :
                candidates[k] = Format(URL_TEMPLATES[t], PremiumGroup1(candidates[k]))
            /\ \A id \in ids : \A t \in DOMAIN URL_TEMPLATES :
                candidates[k] = Format(URL_TEMPLATES[t], id)
                    => PremiumGroup1(candidates[k]) = id

\* two identifiers found on three stream lines, one of them twice
C16_Witness ==
    /\ pc = "probing"
    /\ Cardinality(ids) = 2
    /\ Len(ScanStreams(SplitLines(orig_file), 1)) = 3
    /\ Len(candidates) = 10

\* entry i of the log of check is a request, and what answered it
IsRequest(i) == ck_log[i][1] \in {"HEAD", "GET"}
IsLast(i) == i = Len(ck_log)
ReturnedDead == ck.pc = "returned" /\ ~ck.live
ReturnedLive == ck.pc = "returned" /\ ck.live

(***************************************************************************)
(* C17: a 404, to the HEAD or to the GET request, is the last thing the    *)
(* probe does: it returns dead, with no request and no sleep after it.     *)
(***************************************************************************)
C17_NotFoundTerminal ==
    \A i \in DOMAIN ck_log :
        (IsRequest(i) /\ ck_log[i][3] = 404) => (IsLast(i) /\ ReturnedDead)

\* a 404 to the GET request of the first attempt ended the probe
C17_Witness ==
    /\ ck_log = <<<<"HEAD", 1, HTTP_ODD>>, <<"GET", 1, HTTP_NOT_FOUND>>>>
    /\ ReturnedDead

(***************************************************************************)
(* C18: a request exception, from the HEAD or from the GET request of any  *)
(* attempt, is the last thing the probe does: check returns None, with no  *)
(* request after it, and does not end in any other way.                    *)
(***************************************************************************)
C18_TransportErrorTerminal ==
    /\ ck.pc \in {"head", "sleep", "get", "returned"}
    /\ \A i \in DOMAIN ck_log :
        (IsRequest(i) /\ ck_log[i][3] = RequestError)
            => (IsLast(i) /\ ReturnedDead)

\* the GET request of the second attempt raised and the probe returned None
C18_Witness ==
    /\ Len(ck_log) = 4
    /\ ck_log[4] = <<"GET", 2, RequestError>>
    /\ ReturnedDead

(***************************************************************************)
(* C19: within an attempt a GET request follows the HEAD request exactly   *)
(* when the HEAD status is not 200, 404 or 429; a GET status of 200 makes  *)
(* the candidate live, 404 dead, and any other one leads to the HEAD       *)
(* request of the next attempt with no sleep between, or to dead after     *)
(* the last attempt.                                                       *)
(***************************************************************************)
HeadWantsGet(i) ==
    /\ ck_log[i][1] = "HEAD"
    /\ ck_log[i][3] \notin {200, 404, 429, RequestError}

C19_GetFallback ==
    /\ \A i \in DOMAIN ck_log :
        ck_log[i][1] = "GET" =>
            /\ i > 1
            /\ HeadWantsGet(i - 1)
            /\ ck_log[i - 1][2] = ck_log[i][2]
    /\ \A i \in DOMAIN ck_log :
        ck_log[i][1] = "HEAD" =>
            IF HeadWantsGet(i)
            THEN IF IsLast(i) THEN ck.pc = "get" /\ ck.attempt = ck_log[i][2]
                 ELSE ck_log[i + 1][1] = "GET" /\ ck_log[i + 1][2] = ck_log[i][2]
            ELSE IF IsLast(i) THEN ck.pc # "get"
                 ELSE ck_log[i + 1][1] # "GET"
    /\ \A i \in DOMAIN ck_log :
        ck_log[i][1] = "GET" =>
            IF ck_log[i][3] = 200 THEN IsLast(i) /\ ReturnedLive
            ELSE IF ck_log[i][3] = 404 THEN IsLast(i) /\ ReturnedDead
            ELSE IF ck_log[i][3] = RequestError THEN IsLast(i) /\ ReturnedDead
            ELSE IF ck_log[i][2] < 3
                 THEN IF IsLast(i)
                      THEN ck.pc = "head" /\ ck.attempt = ck_log[i][2] + 1
                      ELSE /\ ck_log[i + 1][1] = "HEAD"
                           /\ ck_log[i + 1][2] = ck_log[i][2] + 1
                 ELSE IsLast(i) /\ ReturnedDead

\* a 429 to the GET request of the first attempt, and the HEAD request of
\* the second attempt right after it
C19_Witness ==
    /\ Len(ck_log) >= 3
    /\ ck_log[2] = <<"GET", 1, HTTP_TOO_MANY>>
    /\ ck_log[3][1] = "HEAD"
    /\ ck_log[3][2] = 2

(***************************************************************************)
(* C20: every probe returns, once and with one verdict, within 3 attempts  *)
(* and at most 3 HEAD and 3 GET requests; with no 200 among the responses  *)
(* the verdict is dead, and a 200 is the last response the probe looks at. *)
(***************************************************************************)
RequestCount(kind) == Cardinality({i \in DOMAIN ck_log : ck_log[i][1] = kind})

C20_Budget ==
    /\ ck.attempt \in 1..3
    /\ \A i \in DOMAIN ck_log : ck_log[i][2] \in 1..3
    /\ RequestCount("HEAD") <= 3
    /\ RequestCount("GET") <= 3
    /\ ck.pc = "returned" <=> ~ENABLED NextCheck
    /\ (ck.pc = "returned"
            /\ \A i \in DOMAIN ck_log : ~(IsRequest(i) /\ ck_log[i][3] = 200))
        => ~ck.live
    /\ \A i \in DOMAIN ck_log :
        (IsRequest(i) /\ ck_log[i][3] = 200) => (IsLast(i) /\ ReturnedLive)

C20_AttemptBudget ==
    /\ <>(ck.pc = "returned")
    /\ []C20_Budget

\* three whole attempts, each with a HEAD and a GET request, and no 200
C20_Witness ==
    /\ RequestCount("HEAD") = 3
    /\ RequestCount("GET") = 3
    /\ ck.attempt = 3
    /\ ReturnedDead

(***************************************************************************)
(* C21: in the map build_map returns every key has a list that is not      *)
(* empty, every link of the input that matches the premium pattern is in   *)
(* the map once, under its own identifier and no other, nothing else is    *)
(* in the map, and each list keeps the order of the input.                 *)
(***************************************************************************)
\* the places of the map that hold link u
PlacesOf(map, u) ==
    {p \in UNION {{<<id, j>> : j \in DOMAIN map[id]} : id \in DOMAIN map} :
        map[p[1]][p[2]] = u}

\* the place of a link in a list that holds it once
IndexIn(xs, u) == CHOOSE i \in DOMAIN xs : xs[i] = u

C21_MapWellFormed ==
    pc = "rewrite" =>
        /\ \A id \in DOMAIN id_to_valids : id_to_valids[id] # <<>>
        /\ \A i \in DOMAIN valid :
            Matches(valid[i]) =>
                /\ Cardinality(PlacesOf(id_to_valids, valid[i])) = 1
                /\ \A p \in PlacesOf(id_to_valids, valid[i]) :
                    p[1] = PremiumGroup1(valid[i])
        /\ \A id \in DOMAIN id_to_valids : \A j \in DOMAIN id_to_valids[id] :
            InList(id_to_valids[id][j], valid)
        /\ \A id \in DOMAIN id_to_valids : \A a, b \in DOMAIN id_to_valids[id] :
            a < b => IndexIn(valid, id_to_valids[id][a])
                        < IndexIn(valid, id_to_valids[id][b])

\* two keys, and a list of two links that were not next to each other
C21_Witness ==
    /\ pc = "rewrite"
    /\ DOMAIN id_to_valids = {"7", "8"}
    /\ Len(valid) = 3
    /\ PremiumGroup1(valid[1]) = "7"
    /\ PremiumGroup1(valid[2]) = "8"
    /\ id_to_valids["7"] = <<valid[1], valid[3]>>

\* the stream line at place j of lines has an identifier that was not probed
NeverProbed(j) ==
    /\ IsStreamPos(lines, j)
    /\ Matches(Strip(lines[j]))
    /\ PremiumGroup1(Strip(lines[j])) \notin ids

\* rewrite_streams works on the playlist as it is when it reads it, and
\* what it emits for a line never probed is that line without the
\* whitespace around it
RereadUpToStrip ==
    /\ pc = "open" =>
        /\ lines = SplitLines(playlistFile)
        /\ out_lines = RewriteLoop(SplitLines(playlistFile), 1, id_to_valids).out_lines
    /\ pc \in {"rewritten", "done"} => playlistFile = PlaylistText(out_lines)
    /\ Scanned =>
        /\ Len(out_lines) = Len(lines)
        /\ \A j \in 1..Len(lines) :
            /\ ~IsStreamPos(lines, j) => out_lines[j] = lines[j]
            /\ NeverProbed(j) => out_lines[j] = Strip(lines[j])

(***************************************************************************)
(* C22: rewrite_streams reads the playlist again, so what it writes comes  *)
(* from the playlist as another process left it between the stages: every  *)
(* line is there, the lines outside the pairs as they were, and a stream   *)
(* line whose identifier was never probed is emitted as it was read.       *)
(***************************************************************************)
C22_RereadAtRewrite ==
    /\ pc = "open" => lines = SplitLines(playlistFile)
    /\ pc \in {"rewritten", "done"} => playlistFile = PlaylistText(out_lines)
    /\ Scanned =>
        /\ Len(out_lines) = Len(lines)
        /\ \A j \in 1..Len(lines) :
            /\ ~IsStreamPos(lines, j) => out_lines[j] = lines[j]
            /\ NeverProbed(j) => out_lines[j] = lines[j]

\* the run ended on a playlist that had lines added, one of them a stream
\* line with an identifier that was never probed
C22_EditedRunEnded ==
    /\ pc = "done"
    /\ SplitLines(orig_file) # lines
    /\ \E j \in 1..Len(lines) : NeverProbed(j)

(***************************************************************************)
(* C23: in validate_links and in rewrite_streams a line is a stream line   *)
(* exactly when the line before it starts with #EXTINF and is not itself   *)
(* a stream line: a line that starts with #EXTINF right after a metadata   *)
(* line is handled as a stream line and the line after it is not one, and  *)
(* an #EXTINF line that ends the file is emitted as it was read.           *)
(***************************************************************************)
C23_PositionalPairing ==
    /\ JustScanned =>
        \A ls \in {SplitLines(orig_file)} :
            ids = {PremiumGroup1(Strip(ls[j])) :
                    j \in {i \in 1..Len(ls) :
                            IsStreamPos(ls, i) /\ Matches(Strip(ls[i]))}}
    /\ (Scanned /\ lines # <<>>) =>
        /\ Len(out_lines) = Len(lines)
        /\ \A j \in 1..Len(lines) :
            IF IsStreamPos(lines, j)
            THEN /\ out_lines[j] = NewStream(lines[j], id_to_valids).line
                 /\ StartsWithExtinf(lines[j]) => out_lines[j] = Strip(lines[j])
            ELSE out_lines[j] = lines[j]

\* the run ended on a playlist with an #EXTINF line taken as the stream line
\* of the one before it, stripped, and with an #EXTINF line at its end
C23_Witness ==
    /\ pc = "done"
    /\ lines # <<>>
    /\ \E j \in 1..Len(lines) :
        /\ IsStreamPos(lines, j)
        /\ StartsWithExtinf(lines[j])
        /\ out_lines[j] # lines[j]
    /\ StartsWithExtinf(lines[Len(lines)])
    /\ ~IsStreamPos(lines, Len(lines))
    /\ out_lines[Len(lines)] = lines[Len(lines)]

(***************************************************************************)
(* C24: the count rewrite_streams reports is the number of paired stream   *)
(* lines emitted with a URL other than the stripped URL read, and it is 0  *)
(* when the Validity Map is empty.                                         *)
(***************************************************************************)
ChangedStreams ==
    {j \in StreamPositions(lines) : out_lines[j] # Strip(lines[j])}

C24_ReplacementCount ==
    Scanned =>
        /\ replaced = Cardinality(ChangedStreams)
        /\ DOMAIN id_to_valids = {} => replaced = 0

\* one stream line was replaced and counted; it was read with whitespace
\* around it, which alone would not have counted
C24_Witness ==
    /\ pc = "rewritten"
    /\ run = 1
    /\ replaced = 1
    /\ \E j \in ChangedStreams : lines[j] # Strip(lines[j])

(***************************************************************************)
(* C25: the probe sleeps 5 s once after each 429 to a HEAD request, also   *)
(* after the one of the third attempt, which ends the probe, and nowhere   *)
(* else: not after another HEAD status, a GET response or a request        *)
(* error.  The sleeps are as many as the 429s to HEAD, and at most 3.      *)
(***************************************************************************)
IsHead429(i) == ck_log[i][1] = "HEAD" /\ ck_log[i][3] = 429

C25_BackoffPlacement ==
    /\ \A i \in DOMAIN ck_log :
        ck_log[i][1] = "SLEEP" =>
            /\ i > 1
            /\ IsHead429(i - 1)
            /\ ck_log[i - 1][2] = ck_log[i][2]
            /\ ck_log[i][3] = 5
    /\ \A i \in DOMAIN ck_log :
        IsHead429(i) =>
            IF IsLast(i) THEN ck.pc = "sleep"
            ELSE ck_log[i + 1][1] = "SLEEP"
    /\ \A i \in DOMAIN ck_log :
        (ck_log[i][1] = "SLEEP" /\ ck_log[i][2] = 3) => (IsLast(i) /\ ReturnedDead)
    /\ ck.pc = "sleep" => (ck_log # <<>> /\ IsHead429(Len(ck_log)))
    /\ RequestCount("SLEEP") <= 3
    /\ ck.pc # "sleep" =>
        RequestCount("SLEEP") = Cardinality({i \in DOMAIN ck_log : IsHead429(i)})

\* a 429 to GET with no sleep after it, then a 429 to HEAD on the second
\* and on the third attempt, each with its sleep, and the probe ended dead
C25_Witness ==
    /\ ck_log = << <<"HEAD", 1, HTTP_ODD>>, <<"GET", 1, HTTP_TOO_MANY>>,
                   <<"HEAD", 2, HTTP_TOO_MANY>>, <<"SLEEP", 2, BackoffSeconds>>,
                   <<"HEAD", 3, HTTP_TOO_MANY>>, <<"SLEEP", 3, BackoffSeconds>> >>
    /\ ReturnedDead

====
